---- MODULE Spec2Model ----
(***************************************************************************)
(* Model of lib/rbcodec/dsp/subharmonic.c, the Rockbox subharmonic         *)
(* synthesizer: two one-pole low-pass filters, a sample-and-hold toggle,   *)
(* a gain table and a saturating mixer, driven by the DSP core through     *)
(* configure() and process() and by the sound_set_subharmonic_* setters.   *)
(*                                                                         *)
(* The C code computes on int32_t samples with int64_t intermediates.      *)
(* The model keeps those widths: every 64-bit expression is evaluated      *)
(* exactly on little-endian two's complement byte vectors (the arithmetic  *)
(* section below), and a cast to int32_t keeps the low four bytes.         *)
(***************************************************************************)
EXTENDS Integers, Sequences, FiniteSets, TLC

(***************************************************************************)
(* Exact two's complement arithmetic.  A wide integer is a tuple of nine   *)
(* bytes, least significant first; the top bit of the last byte is the     *)
(* sign.  All operations are exact modulo 2^72, which is wider than every  *)
(* value an int64_t expression of the program can take, so a value that    *)
(* does not fit 64 bits is visible as such (Fits64).                       *)
(***************************************************************************)
Base == 2^8
Wide == 1..9

\* Bring nine integer digits into canonical byte form (carry propagation;
\* the carry out of the last byte is dropped).
Norm(v) ==
    LET t1 == v[1]
        t2 == v[2] + (t1 \div Base)
        t3 == v[3] + (t2 \div Base)
        t4 == v[4] + (t3 \div Base)
        t5 == v[5] + (t4 \div Base)
        t6 == v[6] + (t5 \div Base)
        t7 == v[7] + (t6 \div Base)
        t8 == v[8] + (t7 \div Base)
        t9 == v[9] + (t8 \div Base)
    IN  <<t1 % Base, t2 % Base, t3 % Base, t4 % Base, t5 % Base,
          t6 % Base, t7 % Base, t8 % Base, t9 % Base>>

\* The wide integer of a 32-bit integer x.
Big(x) ==
    LET ext == IF x < 0 THEN Base - 1 ELSE 0
    IN  <<x % Base, (x \div 2^8) % Base, (x \div 2^16) % Base, (x \div 2^24) % Base,
          ext, ext, ext, ext, ext>>

BAdd(a, b) == Norm([i \in Wide |-> a[i] + b[i]])
BSub(a, b) == Norm([i \in Wide |-> a[i] - b[i]])

\* The product modulo 2^72: byte k collects the products a[i] * b[j] with
\* i + j = k + 1.
BMul(a, b) ==
    Norm(<< a[1] * b[1],
            a[1] * b[2] + a[2] * b[1],
            a[1] * b[3] + a[2] * b[2] + a[3] * b[1],
            a[1] * b[4] + a[2] * b[3] + a[3] * b[2] + a[4] * b[1],
            a[1] * b[5] + a[2] * b[4] + a[3] * b[3] + a[4] * b[2] +
             a[5] * b[1],
            a[1] * b[6] + a[2] * b[5] + a[3] * b[4] + a[4] * b[3] +
             a[5] * b[2] + a[6] * b[1],
            a[1] * b[7] + a[2] * b[6] + a[3] * b[5] + a[4] * b[4] +
             a[5] * b[3] + a[6] * b[2] + a[7] * b[1],
            a[1] * b[8] + a[2] * b[7] + a[3] * b[6] + a[4] * b[5] +
             a[5] * b[4] + a[6] * b[3] + a[7] * b[2] + a[8] * b[1],
            a[1] * b[9] + a[2] * b[8] + a[3] * b[7] + a[4] * b[6] +
             a[5] * b[5] + a[6] * b[4] + a[7] * b[3] + a[8] * b[2] +
             a[9] * b[1] >>)

BNegative(a) == a[9] >= Base \div 2
BZero == Big(0)
BLess(a, b) == BNegative(BSub(a, b))
BLeq(a, b) == ~BLess(b, a)
BNeg(a) == BSub(BZero, a)
BAbs(a) == IF BNegative(a) THEN BNeg(a) ELSE a

\* a << 8n and the arithmetic shift a >> 8n.
BShl(a, n) == [i \in Wide |-> IF i > n THEN a[i - n] ELSE 0]
BShr(a, n) ==
    [i \in Wide |-> IF i + n <= 9 THEN a[i + n]
                    ELSE IF BNegative(a) THEN Base - 1 ELSE 0]

\* The value of the low n bytes of a read as a signed n-byte integer:
\* what a conversion to an n-byte signed type keeps.
SignExtend(a, n) ==
    [i \in Wide |-> IF i <= n THEN a[i]
                    ELSE IF a[n] >= Base \div 2 THEN Base - 1 ELSE 0]
Fits64(a) == a = SignExtend(a, 8)
Fits32(a) == a = SignExtend(a, 4)

\* The integer of a wide integer that fits 32 bits.
ToInt(a) ==
    (a[4] - (IF a[4] >= Base \div 2 THEN Base ELSE 0)) * 2^24
        + a[3] * 2^16 + a[2] * 2^8 + a[1]

\* a * k for a small integer k (|k| <= Base).
BScale(a, k) == Norm([i \in Wide |-> a[i] * k])

\* The largest q in q0 .. q0 + 2*w - 1 with q * d <= r, given q0 * d <= r
\* (binary search for one quotient byte).
RECURSIVE QuotDigit(_, _, _, _)
QuotDigit(r, d, q0, w) ==
    IF w = 0 THEN q0
    ELSE IF BLeq(BScale(d, q0 + w), r) THEN QuotDigit(r, d, q0 + w, w \div 2)
         ELSE QuotDigit(r, d, q0, w \div 2)

\* Long division of n >= 0 by d > 0, one byte of n at a time from the top:
\* r is the running remainder (0 <= r < d), q the quotient bytes found.
RECURSIVE ULong(_, _, _, _, _)
ULong(n, d, i, r, q) ==
    IF i = 0 \/ BNegative(r) THEN <<q, r>>
    ELSE LET r1 == BAdd(BShl(r, 1), Big(n[i]))
             qd == IF BLess(r1, d) THEN 0 ELSE QuotDigit(r1, d, 0, Base \div 2)
         IN  ULong(n, d, i - 1, BSub(r1, BScale(d, qd)), [q EXCEPT ![i] = qd])

\* Quotient and remainder of n >= 0 by d > 0.
UDivMod(n, d) == ULong(n, d, 9, BZero, BZero)

\* C's integer division: the quotient truncated toward zero (d # 0).
BDiv(n, d) ==
    LET q == UDivMod(BAbs(n), BAbs(d))[1]
    IN  IF BNegative(n) # BNegative(d) THEN BNeg(q) ELSE q

(***************************************************************************)
(* Program constants.                                                      *)
(***************************************************************************)
INT32_MAX == 2147483647
INT32_MIN == -INT32_MAX - 1
GAIN_TABLE_MIN_DB == -24
GAIN_TABLE_MAX_DB == 12
\* (int32_t)(6.283185307179586 * (1<<16))
TWO_PI_Q16 == 411774
\* 1<<16, one in Q16
ONE_Q16 == 2^16

\* gain_table_q16[k] of the C code is gain_table_q16[k + 1] here.
gain_table_q16 ==
    << 4145, 4655, 5226, 5867, 6588, 7399, 8310, 9336, 10488, 11782, 13234,
       14865, 16700, 18766, 21095, 23721, 26686, 30033, 33808, 38065, 42862,
       48265, 54342, 61172, 65536, 73690, 82708, 92713, 103957, 116607,
       130858, 146928, 165060, 185533, 208661, 234804, 264367 >>

\* What a 32-bit object holds when the C code gives no defined value.
Indeterminate32 == {INT32_MIN, -1, 0, 1, INT32_MAX}

\* The values a read of gain_table_q16[k] can give: the entry, or, outside
\* the array, anything.
table_read(k) ==
    IF k \in 0..(GAIN_TABLE_MAX_DB - GAIN_TABLE_MIN_DB)
    THEN {gain_table_q16[k + 1]}
    ELSE Indeterminate32

(***************************************************************************)
(* Gain: the clamp and table index of recompute() and of                   *)
(* sound_set_subharmonic_level().                                          *)
(***************************************************************************)
recompute_index(db) ==
    LET db1 == IF db < GAIN_TABLE_MIN_DB THEN GAIN_TABLE_MIN_DB ELSE db
        db2 == IF db1 > GAIN_TABLE_MAX_DB THEN GAIN_TABLE_MAX_DB ELSE db1
    IN  db2 - GAIN_TABLE_MIN_DB

\* Faulty variant: the clamp of sound_set_subharmonic_level() without its
\* upper test.
level_index_no_upper_clamp(db) ==
    LET db1 == IF db < GAIN_TABLE_MIN_DB THEN GAIN_TABLE_MIN_DB ELSE db
    IN  db1 - GAIN_TABLE_MIN_DB

level_index(db) ==
    LET db1 == IF db < GAIN_TABLE_MIN_DB THEN GAIN_TABLE_MIN_DB ELSE db
        db2 == IF db1 > GAIN_TABLE_MAX_DB THEN GAIN_TABLE_MAX_DB ELSE db1
    IN  db2 - GAIN_TABLE_MIN_DB

(***************************************************************************)
(* Coefficient: alpha = (2 pi f) / (2 pi f + fs) in Q16.                   *)
(***************************************************************************)
\* The values of the int64_t expression w << 16.  When w is negative or the
\* product does not fit 64 bits the shift is undefined: the wrapped value is
\* what the usual build gives, and any other 64-bit value is possible.
shl16(w) ==
    LET exact == BShl(w, 2)
    IN  IF Fits64(exact) /\ ~BNegative(w) THEN {exact}
        ELSE {SignExtend(exact, 8), BZero,
              BSub(BShl(Big(1), 7), BShl(Big(1), 8)),
              BSub(BSub(BShl(Big(1), 8), BShl(Big(1), 7)), Big(1))}

\* The values of alpha_q16 that recompute() can store for cutoff fc and
\* sample rate fs.
recompute_alpha(fc, fs) ==
    LET w_q16 == BMul(Big(fc), Big(TWO_PI_Q16))
        dens  == {LET den0 == SignExtend(BAdd(w_q16, s), 8)
                  IN  IF BLeq(den0, BZero) THEN Big(1) ELSE den0 :
                  s \in shl16(Big(fs))}
    IN  {ToInt(SignExtend(BDiv(num, den), 4)) : num \in shl16(w_q16), den \in dens}

\* The same computation as written in sound_set_subharmonic_crossover().
crossover_alpha(hz, fs) ==
    LET w_q16 == BMul(Big(hz), Big(TWO_PI_Q16))
        dens  == {LET den0 == SignExtend(BAdd(w_q16, s), 8)
                  IN  IF BLeq(den0, BZero) THEN Big(1) ELSE den0 :
                  s \in shl16(Big(fs))}
    IN  {ToInt(SignExtend(BDiv(num, den), 4)) : num \in shl16(w_q16), den \in dens}

(***************************************************************************)
(* The per-sample pipeline of process().                                   *)
(***************************************************************************)
\* Faulty variant: the accumulator of the stage only 32 bits wide.
lowpass_narrow_accumulator(alpha, x, y) ==
    LET one_minus == SignExtend(BSub(Big(ONE_Q16), Big(alpha)), 4)
        acc == SignExtend(BAdd(BMul(Big(alpha), Big(x)), BMul(one_minus, Big(y))), 4)
    IN  ToInt(SignExtend(BShr(acc, 2), 4))

\* Faulty variant: the two weights exchanged, alpha on y[n-1] and 1 - alpha
\* on x[n].
lowpass_weights_exchanged(alpha, x, y) ==
    LET one_minus == SignExtend(BSub(Big(ONE_Q16), Big(alpha)), 4)
        acc == SignExtend(BAdd(BMul(Big(alpha), Big(y)), BMul(one_minus, Big(x))), 8)
    IN  ToInt(SignExtend(BShr(acc, 2), 4))

\* y[n] = alpha * x[n] + (1 - alpha) * y[n-1]:
\* (int32_t)(((int64_t)alpha * x + (int64_t)((1<<16) - alpha) * y) >> 16)
lowpass(alpha, x, y) ==
    LET one_minus == SignExtend(BSub(Big(ONE_Q16), Big(alpha)), 4)
        acc == SignExtend(BAdd(BMul(Big(alpha), Big(x)), BMul(one_minus, Big(y))), 8)
    IN  ToInt(SignExtend(BShr(acc, 2), 4))

\* The same expression with its two reads of alpha_q16 kept apart: a1 is the
\* value read for the weight of x, a2 the value read for (1<<16) - alpha.
lowpass_reads(a1, a2, x, y) ==
    LET one_minus == SignExtend(BSub(Big(ONE_Q16), Big(a2)), 4)
        acc == SignExtend(BAdd(BMul(Big(a1), Big(x)), BMul(one_minus, Big(y))), 8)
    IN  ToInt(SignExtend(BShr(acc, 2), 4))

\* Faulty variant: the mixer without the two clipping tests.
mixer_without_clipping(sample, antialias_out, gain, pg) ==
    LET scaled == BShr(BMul(Big(gain), Big(antialias_out)), 2)
        mixer_out == IF pg THEN BAdd(Big(sample \div 2), scaled)
                     ELSE BAdd(Big(sample), scaled)
    IN  ToInt(SignExtend(mixer_out, 4))

\* The mixer with its clipping: the int32_t written back to the buffer.
mixer(sample, antialias_out, gain, pg) ==
    LET scaled == BShr(BMul(Big(gain), Big(antialias_out)), 2)
        mixer_out == IF pg THEN BAdd(Big(sample \div 2), scaled)
                     ELSE BAdd(Big(sample), scaled)
    IN  IF BLess(Big(INT32_MAX), mixer_out) THEN INT32_MAX
        ELSE IF BLess(mixer_out, Big(INT32_MIN)) THEN INT32_MIN
        ELSE ToInt(mixer_out)

(***************************************************************************)
(* State.                                                                  *)
(***************************************************************************)
VARIABLES
    prev_crossover_out,      \* int32_t [2]: crossover low-pass memory
    subharmonic_hold_q16,    \* int32_t [2]: sample-and-hold register
    prev_antialias_out_q16,  \* int32_t [2]: anti-alias low-pass memory
    toggle_state,            \* int [2]: sample-and-hold toggle
    samplerate,              \* cached output sample rate
    alpha_q16,               \* filter coefficient
    gain_q16,                \* subharmonic gain
    pregain,                 \* -6 dB pregain for the original signal
    global_settings,         \* the subharmonic_* fields of global_settings
    this_process,            \* this->process is set (to process), not NULL
    out_frequency,           \* what dsp_get_output_frequency(dsp) returns
    proc_enabled,            \* DSP core: DSP_PROC_SUBHARMONIC is enabled
    proc_active,             \* DSP core: the stage is in the active set
    proc_in_place,           \* DSP core: the stage is declared in-place
    buf,                     \* the buffer process() has just returned, until the
                             \* DSP core's next call (NoBuffer otherwise)
    buffers_left,            \* buffers the DSP core has still to deliver
    last_call,               \* the last call into the module and its argument
    last_set,                \* the parameters most recently set: the stored
                             \* settings, then each setter's argument
                             \* (followed in SpecCoefficients only)
    probe                    \* inputs and result of a function under test

channel_state ==
    <<prev_crossover_out, subharmonic_hold_q16, prev_antialias_out_q16, toggle_state>>
coefficients == <<samplerate, alpha_q16, gain_q16, pregain>>
host_flags == <<proc_enabled, proc_active, proc_in_place>>
vars ==
    <<prev_crossover_out, subharmonic_hold_q16, prev_antialias_out_q16,
      toggle_state, samplerate, alpha_q16, gain_q16, pregain, global_settings,
      this_process, out_frequency, proc_enabled, proc_active, proc_in_place,
      buf, buffers_left, last_call, last_set, probe>>

(***************************************************************************)
(* Bounds of the model and the inputs the environment draws from.          *)
(***************************************************************************)
MaxChannels == 3
MaxCount == 1
MaxBuffers == 1

\* Output frequencies of the DSP core.
Rates == {44100, 48000}
\* Crossover settings and setter arguments (Hz).
Cutoffs == {80, 200}
\* Level settings and setter arguments (dB), inside and outside the table.
Levels == {-30, 13}
\* Settings stored in global_settings when the module starts; the effect is
\* off until sound_set_subharmonic_enable(true).
StoredSettings ==
    { [subharmonic_enable |-> FALSE, subharmonic_crossover |-> 80,
       subharmonic_level |-> 13, subharmonic_pregain |-> TRUE],
      [subharmonic_enable |-> FALSE, subharmonic_crossover |-> 200,
       subharmonic_level |-> -6, subharmonic_pregain |-> FALSE] }
\* Seeds of the sample patterns of a buffer.
Seeds == {1000000000}

\* Sample i of channel ch of the buffer with seed s: s and its complement
\* alternate in time and between channels.
pattern(s, ch, i) == IF (ch + i) % 2 = 1 THEN s ELSE -s - 1

\* struct dsp_buffer as process() reads it: format.num_channels, remcount
\* and the sample arrays p32[ch][1..remcount].
Buffers ==
    { [num_channels |-> n, remcount |-> c,
       p32 |-> [ch \in 0..(MaxChannels - 1) |-> [i \in 1..c |-> pattern(s, ch, i)]]] :
      n \in 1..MaxChannels, c \in 0..MaxCount, s \in Seeds }

NoBuffer ==
    [num_channels |-> 1, remcount |-> 0,
     p32 |-> [ch \in 0..(MaxChannels - 1) |-> << >>]]

SAMPLERATE_DEFAULT == 44100

(***************************************************************************)
(* Initial state: the static initialisers of the file, a DSP core that has *)
(* not registered the stage yet, and any stored settings.                  *)
(***************************************************************************)
InitModule ==
    /\ prev_crossover_out = [ch \in 0..1 |-> 0]
    /\ subharmonic_hold_q16 = [ch \in 0..1 |-> 0]
    /\ prev_antialias_out_q16 = [ch \in 0..1 |-> 0]
    /\ toggle_state = [ch \in 0..1 |-> 0]
    /\ samplerate = SAMPLERATE_DEFAULT
    /\ alpha_q16 = 0
    /\ gain_q16 = 0
    /\ pregain = FALSE
    /\ this_process = FALSE
    /\ proc_enabled = FALSE
    /\ proc_active = FALSE
    /\ proc_in_place = FALSE
    /\ buf = NoBuffer
    /\ last_call = <<"none", 0>>

Init ==
    /\ InitModule
    /\ global_settings \in StoredSettings
    /\ last_set = [cutoffHz |-> global_settings.subharmonic_crossover,
                   levelDb |-> global_settings.subharmonic_level,
                   pregainEnabled |-> global_settings.subharmonic_pregain]
    /\ out_frequency \in Rates
    /\ buffers_left = MaxBuffers
    /\ probe = << >>

(***************************************************************************)
(* flush_state() and recompute().                                          *)
(***************************************************************************)
\* The two coefficient computations on the cutoffs and sample rates the
\* environment above draws from, evaluated once.
recompute_alpha_tab ==
    [fc \in Cutoffs, fs \in Rates \cup {SAMPLERATE_DEFAULT} |-> recompute_alpha(fc, fs)]
crossover_alpha_tab ==
    [hz \in Cutoffs, fs \in Rates \cup {SAMPLERATE_DEFAULT} |-> crossover_alpha(hz, fs)]

recompute_alpha_at(fc, fs) ==
    IF <<fc, fs>> \in DOMAIN recompute_alpha_tab THEN recompute_alpha_tab[fc, fs]
    ELSE recompute_alpha(fc, fs)
crossover_alpha_at(hz, fs) ==
    IF <<hz, fs>> \in DOMAIN crossover_alpha_tab THEN crossover_alpha_tab[hz, fs]
    ELSE crossover_alpha(hz, fs)

\* Faulty variant: flush_state() leaving the crossover filter's memory alone.
flush_state_keeps_crossover ==
    /\ UNCHANGED prev_crossover_out
    /\ subharmonic_hold_q16' = [ch \in 0..1 |-> 0]
    /\ prev_antialias_out_q16' = [ch \in 0..1 |-> 0]
    /\ toggle_state' = [ch \in 0..1 |-> 0]

\* Faulty variant: flush_state() leaving toggle_state alone.
flush_state_keeps_toggle ==
    /\ prev_crossover_out' = [ch \in 0..1 |-> 0]
    /\ subharmonic_hold_q16' = [ch \in 0..1 |-> 0]
    /\ prev_antialias_out_q16' = [ch \in 0..1 |-> 0]
    /\ UNCHANGED toggle_state

flush_state ==
    /\ prev_crossover_out' = [ch \in 0..1 |-> 0]
    /\ subharmonic_hold_q16' = [ch \in 0..1 |-> 0]
    /\ prev_antialias_out_q16' = [ch \in 0..1 |-> 0]
    /\ toggle_state' = [ch \in 0..1 |-> 0]

\* recompute() run with the settings gs and the cached sample rate fs.
recompute(gs, fs) ==
    /\ alpha_q16' \in recompute_alpha_at(gs.subharmonic_crossover, fs)
    /\ gain_q16' \in table_read(recompute_index(gs.subharmonic_level))
    /\ pregain' = gs.subharmonic_pregain

(***************************************************************************)
(* configure(): one definition per case of the switch.  fs is the value    *)
(* dsp_get_output_frequency(dsp) returns during the call.                  *)
(***************************************************************************)
\* Faulty variant: DSP_PROC_INIT without the read of the output frequency.
configure_INIT_without_capture(gs, fs) ==
    /\ flush_state
    /\ this_process' = TRUE
    /\ UNCHANGED samplerate
    /\ recompute(gs, samplerate)

configure_INIT(gs, fs) ==
    /\ flush_state
    /\ this_process' = TRUE
    /\ samplerate' = fs
    /\ recompute(gs, fs)

\* Faulty variant: DSP_PROC_CLOSE leaving this->process set.
configure_CLOSE_keeps_process ==
    /\ flush_state
    /\ UNCHANGED <<coefficients, this_process>>

configure_CLOSE ==
    /\ flush_state
    /\ this_process' = FALSE
    /\ UNCHANGED coefficients

configure_FLUSH ==
    /\ flush_state
    /\ UNCHANGED <<coefficients, this_process>>

\* Faulty variant: DSP_SET_OUT_FREQUENCY also flushing the state.
configure_SET_OUT_FREQUENCY_flushes(gs, fs) ==
    /\ samplerate' = fs
    /\ recompute(gs, fs)
    /\ flush_state
    /\ UNCHANGED this_process

configure_SET_OUT_FREQUENCY(gs, fs) ==
    /\ samplerate' = fs
    /\ recompute(gs, fs)
    /\ UNCHANGED <<channel_state, this_process>>

configure_NEW_FORMAT ==
    UNCHANGED <<channel_state, coefficients, this_process>>

Settings ==
    {"DSP_PROC_INIT", "DSP_PROC_CLOSE", "DSP_FLUSH", "DSP_SET_OUT_FREQUENCY",
     "DSP_PROC_NEW_FORMAT", "DSP_RESET"}

\* configure(this, dsp, setting, value) called by the DSP core; f is the
\* output frequency of the core at the call, which the core has just
\* changed when the setting is DSP_SET_OUT_FREQUENCY.
configure(setting, f) ==
    /\ out_frequency' = f
    /\ CASE setting = "DSP_PROC_INIT" -> configure_INIT(global_settings, f)
         [] setting = "DSP_PROC_CLOSE" -> configure_CLOSE
         [] setting = "DSP_FLUSH" -> configure_FLUSH
         [] setting = "DSP_SET_OUT_FREQUENCY" ->
                configure_SET_OUT_FREQUENCY(global_settings, f)
         [] setting = "DSP_PROC_NEW_FORMAT" -> configure_NEW_FORMAT
         [] OTHER -> UNCHANGED <<channel_state, coefficients, this_process>>
    /\ last_call' = <<setting, f>>
    /\ buf' = NoBuffer
    /\ UNCHANGED <<global_settings, host_flags, buffers_left, last_set, probe>>

(***************************************************************************)
(* The setters.                                                            *)
(***************************************************************************)
\* dsp_set_subharmonic(), reading the settings gs.  The DSP core's
\* dsp_proc_enabled/enable/activate/set_in_place read and write its flags;
\* dsp_configure(dsp, DSP_PROC_INIT, 1) reaches configure() of this stage.
\* Faulty variant: dsp_set_subharmonic() enabling again where it should
\* initialize the already enabled stage.
dsp_set_subharmonic_enables_again(gs) ==
    LET on == gs.subharmonic_enable
        was_enabled == proc_enabled
    IN  IF on
        THEN /\ proc_enabled' = TRUE
             /\ UNCHANGED <<channel_state, coefficients, this_process>>
             /\ proc_active' = TRUE
             /\ proc_in_place' = TRUE
        ELSE /\ proc_active' = FALSE
             /\ proc_enabled' = IF was_enabled THEN FALSE ELSE proc_enabled
             /\ UNCHANGED <<proc_in_place, channel_state, coefficients, this_process>>

dsp_set_subharmonic(gs) ==
    LET on == gs.subharmonic_enable
        was_enabled == proc_enabled
    IN  IF on
        THEN /\ IF ~was_enabled
                THEN /\ proc_enabled' = TRUE
                     /\ UNCHANGED <<channel_state, coefficients, this_process>>
                ELSE /\ configure_INIT(gs, out_frequency)
                     /\ UNCHANGED proc_enabled
             /\ proc_active' = TRUE
             /\ proc_in_place' = TRUE
        ELSE /\ proc_active' = FALSE
             /\ proc_enabled' = IF was_enabled THEN FALSE ELSE proc_enabled
             /\ UNCHANGED <<proc_in_place, channel_state, coefficients, this_process>>

sound_set_subharmonic_enable(on) ==
    /\ global_settings' = [global_settings EXCEPT !.subharmonic_enable = on]
    /\ dsp_set_subharmonic(global_settings')
    /\ last_call' = <<"sound_set_subharmonic_enable", on>>
    /\ buf' = NoBuffer
    /\ UNCHANGED <<out_frequency, buffers_left, last_set, probe>>

sound_set_subharmonic_crossover(hz) ==
    /\ alpha_q16' \in crossover_alpha_at(hz, samplerate)
    /\ last_call' = <<"sound_set_subharmonic_crossover", hz>>
    /\ UNCHANGED <<channel_state, samplerate, gain_q16, pregain, global_settings,
                   this_process, out_frequency, host_flags, buffers_left, probe>>
    /\ buf' = NoBuffer

sound_set_subharmonic_level(db) ==
    /\ gain_q16' \in table_read(level_index(db))
    /\ last_call' = <<"sound_set_subharmonic_level", db>>
    /\ UNCHANGED <<channel_state, samplerate, alpha_q16, pregain, global_settings,
                   this_process, out_frequency, host_flags, buffers_left, probe>>
    /\ buf' = NoBuffer

sound_set_subharmonic_pregain_enable(on) ==
    /\ pregain' = on
    /\ last_call' = <<"sound_set_subharmonic_pregain_enable", on>>
    /\ UNCHANGED <<channel_state, samplerate, alpha_q16, gain_q16, global_settings,
                   this_process, out_frequency, host_flags, buffers_left, probe>>
    /\ buf' = NoBuffer

(***************************************************************************)
(* process().                                                              *)
(***************************************************************************)
\* toggle_state[ch] ^= 1
xor1(t) == IF t % 2 = 0 THEN t + 1 ELSE t - 1

\* Faulty variant: the held register follows the crossover output on every
\* sample.
sample_and_hold_every_sample(toggle, hold, crossover_out) == crossover_out

\* if (!toggle_state[ch]) subharmonic_hold_q16[ch] = crossover_out;
\* the value of the held register after the statement.
sample_and_hold(toggle, hold, crossover_out) ==
    IF toggle = 0 THEN crossover_out ELSE hold

\* The body of the channel loop for sample i of channel ch.  st holds the
\* four state arrays and the sample arrays; k the coefficients read.
sample_step(st, k, i, ch) ==
    LET sample == st.p32[ch][i]
        crossover_out == lowpass(k.alpha_q16, sample, st.prev_crossover_out[ch])
        hold == sample_and_hold(st.toggle_state[ch], st.subharmonic_hold_q16[ch],
                                crossover_out)
        subharmonic_out == hold
        antialias_out == lowpass(k.alpha_q16, subharmonic_out,
                                 st.prev_antialias_out_q16[ch])
    IN  [prev_crossover_out |-> [st.prev_crossover_out EXCEPT ![ch] = crossover_out],
         subharmonic_hold_q16 |-> [st.subharmonic_hold_q16 EXCEPT ![ch] = hold],
         toggle_state |-> [st.toggle_state EXCEPT ![ch] = xor1(@)],
         prev_antialias_out_q16 |->
             [st.prev_antialias_out_q16 EXCEPT ![ch] = antialias_out],
         p32 |-> [st.p32 EXCEPT ![ch][i] =
                     mixer(sample, antialias_out, k.gain_q16, k.pregain)]]

\* Faulty variant: the channel loop without its num_channels test.
RECURSIVE process_loop_both_channels(_, _, _, _, _)
process_loop_both_channels(st, k, b, i, ch) ==
    IF i > b.remcount THEN st
    ELSE IF ch < 2
         THEN process_loop_both_channels(sample_step(st, k, i, ch), k, b, i, ch + 1)
         ELSE process_loop_both_channels(st, k, b, i + 1, 0)

\* The two loops from sample i, channel ch on:
\* for (i ...; i < count) for (ch ...; ch < num_channels && ch < 2).
RECURSIVE process_loop(_, _, _, _, _)
process_loop(st, k, b, i, ch) ==
    IF i > b.remcount THEN st
    ELSE IF ch < b.num_channels /\ ch < 2
         THEN process_loop(sample_step(st, k, i, ch), k, b, i, ch + 1)
         ELSE process_loop(st, k, b, i + 1, 0)

\* Faulty variant: process() without its enable test.
skip_never(gs) == FALSE

\* if (!global_settings.subharmonic_enable) return;
skip_filter(gs) == ~gs.subharmonic_enable

\* process(this, buf_p) on the buffer b, called by the DSP core through
\* this->process.
process(b) ==
    /\ this_process
    /\ buffers_left > 0
    /\ buffers_left' = buffers_left - 1
    /\ last_call' = <<"process", b>>
    /\ IF skip_filter(global_settings)
       THEN /\ buf' = b
            /\ UNCHANGED channel_state
       ELSE LET st == process_loop(
                        [prev_crossover_out |-> prev_crossover_out,
                         subharmonic_hold_q16 |-> subharmonic_hold_q16,
                         toggle_state |-> toggle_state,
                         prev_antialias_out_q16 |-> prev_antialias_out_q16,
                         p32 |-> b.p32],
                        [alpha_q16 |-> alpha_q16, gain_q16 |-> gain_q16,
                         pregain |-> pregain],
                        b, 1, 0)
            IN  /\ prev_crossover_out' = st.prev_crossover_out
                /\ subharmonic_hold_q16' = st.subharmonic_hold_q16
                /\ toggle_state' = st.toggle_state
                /\ prev_antialias_out_q16' = st.prev_antialias_out_q16
                /\ buf' = [b EXCEPT !.p32 = st.p32]
    /\ UNCHANGED <<coefficients, global_settings, this_process, out_frequency,
                   host_flags, last_set>>

(***************************************************************************)
(* The program: the DSP core and the settings code call in, in any order.  *)
(***************************************************************************)
Next ==
    \/ \E setting \in Settings \ {"DSP_SET_OUT_FREQUENCY"} :
           configure(setting, out_frequency)
    \/ \E f \in Rates : configure("DSP_SET_OUT_FREQUENCY", f)
    \/ \E b \in Buffers : process(b) /\ UNCHANGED probe
    \/ \E on \in BOOLEAN : sound_set_subharmonic_enable(on)
    \/ \E hz \in Cutoffs :
           sound_set_subharmonic_crossover(hz) /\ UNCHANGED last_set
    \/ \E db \in Levels :
           sound_set_subharmonic_level(db) /\ UNCHANGED last_set
    \/ \E on \in BOOLEAN :
           sound_set_subharmonic_pregain_enable(on) /\ UNCHANGED last_set

Spec == Init /\ [][Next]_vars

\* The operations that set or recompute the coefficients, with last_set
\* following the setters' arguments.
NextCoefficients ==
    \/ configure("DSP_PROC_INIT", out_frequency)
    \/ \E f \in Rates : configure("DSP_SET_OUT_FREQUENCY", f)
    \/ configure("DSP_FLUSH", out_frequency)
    \/ \E hz \in Cutoffs :
           /\ sound_set_subharmonic_crossover(hz)
           /\ last_set' = [last_set EXCEPT !.cutoffHz = hz]
    \/ \E db \in Levels :
           /\ sound_set_subharmonic_level(db)
           /\ last_set' = [last_set EXCEPT !.levelDb = db]
    \/ \E on \in BOOLEAN :
           /\ sound_set_subharmonic_pregain_enable(on)
           /\ last_set' = [last_set EXCEPT !.pregainEnabled = on]

SpecCoefficients == Init /\ [][NextCoefficients]_vars

(***************************************************************************)
(* The computations on their own: probe holds the inputs of one of them,   *)
(* and a step applies it and records what it gives.                        *)
(***************************************************************************)
InitProbe(inputs) ==
    /\ InitModule
    /\ global_settings \in StoredSettings
    /\ last_set = [cutoffHz |-> global_settings.subharmonic_crossover,
                   levelDb |-> global_settings.subharmonic_level,
                   pregainEnabled |-> global_settings.subharmonic_pregain]
    /\ out_frequency = SAMPLERATE_DEFAULT
    /\ buffers_left = 0
    /\ probe \in [in : inputs, out : {<< >>}]

\* Nothing has been applied to the inputs yet.
fresh == probe.out = << >>

record(out) ==
    /\ probe' = [probe EXCEPT !.out = out]
    /\ UNCHANGED <<channel_state, coefficients, global_settings, this_process,
                   out_frequency, host_flags, buf, buffers_left, last_call,
                   last_set>>

\* The mixer: original sample, anti-alias output, gain, pregain.
Extremes32 ==
    {INT32_MIN, INT32_MIN + 1, -ONE_Q16 - 1, -3, -1, 0, 1, 2, ONE_Q16 - 1,
     INT32_MAX - 1, INT32_MAX}
MixerInputs ==
    { <<sample, aa, gain_table_q16[k], pg>> :
        sample \in Extremes32, aa \in Extremes32,
        k \in 1..Len(gain_table_q16), pg \in BOOLEAN }

apply_mixer ==
    /\ fresh
    /\ record(<<mixer(probe.in[1], probe.in[2], probe.in[3], probe.in[4])>>)

InitMixer == InitProbe(MixerInputs)
SpecMixer == InitMixer /\ [][apply_mixer]_vars

\* The coefficient: two (cutoff, sample rate) pairs that differ in the
\* cutoff or in the sample rate, with 32-bit cutoffs >= 0 and rates > 0.
AlphaCutoffs == {0, 1, 100, 101, 20000, 100000, 400000000, INT32_MAX}
AlphaRates == {1, 8000, 44100, 44101, 192000, INT32_MAX}
AlphaInputs ==
    { <<f1, r, f2, r>> : f1 \in AlphaCutoffs, f2 \in AlphaCutoffs, r \in AlphaRates }
    \cup { <<f, r1, f, r2>> : f \in AlphaCutoffs, r1 \in AlphaRates, r2 \in AlphaRates }

apply_recompute_alpha ==
    /\ fresh
    /\ LET first == recompute_alpha(probe.in[1], probe.in[2])
           second == recompute_alpha(probe.in[3], probe.in[4])
       IN  \E a1 \in first, a2 \in second : record(<<"recompute", a1, a2>>)

apply_crossover_alpha ==
    /\ fresh
    /\ LET first == crossover_alpha(probe.in[1], probe.in[2])
           second == crossover_alpha(probe.in[3], probe.in[4])
       IN  \E a1 \in first, a2 \in second :
               record(<<"sound_set_subharmonic_crossover", a1, a2>>)

\* The coefficient where the denominator is not positive: cutoffs <= 0 and
\* sample rates around 0, each pair given twice.
DegenerateCutoffs == {INT32_MIN, -100000, -8000, -1, 0}
DegenerateRates == {INT32_MIN, -1, 0, 1, 6, 44100}
DegenerateInputs ==
    { <<f, r, f, r>> : f \in DegenerateCutoffs, r \in DegenerateRates }

InitAlpha == InitProbe(AlphaInputs)
NextAlpha == apply_recompute_alpha \/ apply_crossover_alpha
SpecAlpha == InitAlpha /\ [][NextAlpha]_vars

InitDegenerate == InitProbe(DegenerateInputs)
SpecDegenerate == InitDegenerate /\ [][NextAlpha]_vars

\* The gain: a level in dB, inside, around and far outside the table.
LevelInputs == (-40..28) \cup {INT32_MIN, INT32_MIN + 1, INT32_MAX - 1, INT32_MAX}

apply_level ==
    /\ fresh
    /\ \E g \in table_read(level_index(probe.in)) :
           record(<<"sound_set_subharmonic_level", level_index(probe.in), g>>)

apply_recompute_level ==
    /\ fresh
    /\ \E g \in table_read(recompute_index(probe.in)) :
           record(<<"recompute", recompute_index(probe.in), g>>)

InitLevel == InitProbe(LevelInputs)
NextLevel == apply_level \/ apply_recompute_level
SpecLevel == InitLevel /\ [][NextLevel]_vars

\* One low-pass stage, and the three stages of one channel: probe.in is
\* <<alpha, x, y>> with alpha in [0, 65536).  The stage is applied to the
\* input x and the previous output y; the channel is fed x and then y from
\* the reset state.
StageAlphas == {0, 1, 679, 32768, 65535}
StageInputs ==
    { <<alpha, x, y>> : alpha \in StageAlphas, x \in Extremes32, y \in Extremes32 }

apply_lowpass ==
    /\ fresh
    /\ record(<<"lowpass", lowpass(probe.in[1], probe.in[2], probe.in[3])>>)

apply_sample_steps ==
    /\ fresh
    /\ LET k == [alpha_q16 |-> probe.in[1], gain_q16 |-> ONE_Q16, pregain |-> FALSE]
           reset == [prev_crossover_out |-> [ch \in 0..1 |-> 0],
                     subharmonic_hold_q16 |-> [ch \in 0..1 |-> 0],
                     toggle_state |-> [ch \in 0..1 |-> 0],
                     prev_antialias_out_q16 |-> [ch \in 0..1 |-> 0],
                     p32 |-> [ch \in 0..(MaxChannels - 1) |->
                                 <<probe.in[2], probe.in[3]>>]]
           st == sample_step(sample_step(reset, k, 1, 0), k, 2, 0)
       IN  record(<<"process", st.prev_crossover_out[0], st.subharmonic_hold_q16[0],
                    st.prev_antialias_out_q16[0]>>)

InitStage == InitProbe(StageInputs)
NextStage == apply_lowpass \/ apply_sample_steps
SpecStage == InitStage /\ [][NextStage]_vars

\* The low-pass recurrence fed a constant: probe.in is <<alpha, c>> and
\* probe.out the outputs so far, from the reset state y = 0 on.
MaxSteps == 40
LowpassAlphas == {1, 679, 16384, 32768, 65535}
LowpassLevels == {-20, -3, -1, 0, 1, 2, 3, 20, 100}
LowpassInputs ==
    { <<alpha, c>> : alpha \in LowpassAlphas, c \in LowpassLevels }
    \cup { <<alpha, c>> : alpha \in {32768, 65535}, c \in {INT32_MIN, INT32_MAX} }

InitLowpass ==
    /\ InitModule
    /\ global_settings \in StoredSettings
    /\ last_set = [cutoffHz |-> global_settings.subharmonic_crossover,
                   levelDb |-> global_settings.subharmonic_level,
                   pregainEnabled |-> global_settings.subharmonic_pregain]
    /\ out_frequency = SAMPLERATE_DEFAULT
    /\ buffers_left = 0
    /\ probe \in [in : LowpassInputs, out : {<<0>>}]

\* The stored output no longer changes.
settled ==
    /\ Len(probe.out) >= 2
    /\ probe.out[Len(probe.out)] = probe.out[Len(probe.out) - 1]

\* One more sample c through the stage.
feed_constant ==
    /\ ~settled
    /\ Len(probe.out) <= MaxSteps
    /\ record(Append(probe.out,
                     lowpass(probe.in[1], probe.in[2], probe.out[Len(probe.out)])))

SpecLowpass == InitLowpass /\ [][feed_constant]_vars

(***************************************************************************)
(* One buffer played again: probe holds a buffer B, what process() returned *)
(* for B as the first buffer after DSP_PROC_INIT (fresh), and what it       *)
(* returned for B directly after a DSP_FLUSH (flushed).  The settings are   *)
(* made before the first buffer; other buffers may be processed in between. *)
(***************************************************************************)
MaxReplay == 2
ReplayCount == 2

ReplayBuffers ==
    { [num_channels |-> n, remcount |-> c,
       p32 |-> [ch \in 0..(MaxChannels - 1) |-> [i \in 1..c |-> pattern(s, ch, i)]]] :
      n \in 1..2, c \in 1..ReplayCount, s \in Seeds }

InitReplay ==
    /\ InitModule
    /\ global_settings \in StoredSettings
    /\ last_set = [cutoffHz |-> global_settings.subharmonic_crossover,
                   levelDb |-> global_settings.subharmonic_level,
                   pregainEnabled |-> global_settings.subharmonic_pregain]
    /\ out_frequency \in Rates
    /\ buffers_left = MaxReplay
    /\ probe \in [b : ReplayBuffers, fresh : {<< >>}, flushed : {<< >>}]

\* No buffer has been processed yet.
before_first == buffers_left = MaxReplay

\* process(b) with the returned buffer noted when b is the buffer followed.
process_noted(b) ==
    /\ before_first => b = probe.b
    /\ process(b)
    /\ probe' = IF before_first THEN [probe EXCEPT !.fresh = <<buf'>>]
                ELSE IF b = probe.b /\ last_call[1] = "DSP_FLUSH"
                     THEN [probe EXCEPT !.flushed = <<buf'>>]
                     ELSE probe

NextReplay ==
    \/ before_first /\ sound_set_subharmonic_enable(TRUE)
    \/ before_first /\ configure("DSP_PROC_INIT", out_frequency)
    \/ \E hz \in Cutoffs :
           before_first /\ sound_set_subharmonic_crossover(hz) /\ UNCHANGED last_set
    \/ \E db \in Levels :
           before_first /\ sound_set_subharmonic_level(db) /\ UNCHANGED last_set
    \/ \E on \in BOOLEAN :
           before_first /\ sound_set_subharmonic_pregain_enable(on)
                        /\ UNCHANGED last_set
    \/ \E b \in ReplayBuffers : process_noted(b)
    \/ ~before_first /\ configure("DSP_FLUSH", out_frequency)

SpecReplay == InitReplay /\ [][NextReplay]_vars

(***************************************************************************)
(* process() sample by sample, with the setters called from another thread *)
(* while it runs.  probe holds the position of the call in its loops, its   *)
(* locals, and what it has read: the values of alpha_q16, gain_q16 and      *)
(* pregain read since the call began, the two values of alpha_q16 read by   *)
(* the last low-pass expression, and n, the samples of each channel taken   *)
(* since the state was last reset.                                          *)
(***************************************************************************)
SampleCount == 4

SampleBuffers ==
    { [num_channels |-> n, remcount |-> c,
       p32 |-> [ch \in 0..(MaxChannels - 1) |-> [i \in 1..c |-> pattern(s, ch, i)]]] :
      n \in 1..2, c \in 1..SampleCount, s \in Seeds }

idle ==
    [pc |-> "idle", b |-> NoBuffer, i |-> 0, ch |-> 0, sample |-> 0, a |-> 0,
     crossover_out |-> 0, subharmonic_out |-> 0,
     alphas |-> {}, gains |-> {}, pregains |-> {}, weights |-> <<0, 0>>,
     n |-> [ch \in 0..1 |-> 0]]

InitSamples ==
    /\ InitModule
    /\ global_settings \in StoredSettings
    /\ last_set = [cutoffHz |-> global_settings.subharmonic_crossover,
                   levelDb |-> global_settings.subharmonic_level,
                   pregainEnabled |-> global_settings.subharmonic_pregain]
    /\ out_frequency \in Rates
    /\ buffers_left = 0
    /\ probe = idle

\* No sample has been taken since the module started.
nothing_processed == probe.n = [ch \in 0..1 |-> 0]

\* The call is inside its loops.
running == probe.pc # "idle"

\* Entry of process(): the enable test and the first tests of the two loops.
\* The call followed is the first one that takes samples after the reset.
process_begin(b) ==
    /\ this_process
    /\ ~running
    /\ nothing_processed
    /\ last_call' = <<"process", b>>
    /\ IF skip_filter(global_settings) \/ b.remcount = 0 \/ b.num_channels = 0
       THEN /\ buf' = b
            /\ probe' = [probe EXCEPT !.alphas = {}, !.gains = {}, !.pregains = {}]
       ELSE /\ buf' = NoBuffer
            /\ probe' = [probe EXCEPT !.pc = "crossover_load", !.b = b, !.i = 1,
                                      !.ch = 0, !.alphas = {}, !.gains = {},
                                      !.pregains = {}]
    /\ UNCHANGED <<channel_state, coefficients, global_settings, this_process,
                   out_frequency, host_flags, buffers_left, last_set>>

\* sample = *samp, and the read of alpha_q16 for alpha_q16 * sample.
crossover_load ==
    /\ probe.pc = "crossover_load"
    /\ probe' = [probe EXCEPT !.pc = "crossover",
                              !.sample = probe.b.p32[probe.ch][probe.i],
                              !.a = alpha_q16,
                              !.alphas = @ \cup {alpha_q16}]
    /\ UNCHANGED <<channel_state, coefficients, global_settings, this_process,
                   out_frequency, host_flags, buf, buffers_left, last_call,
                   last_set>>

\* The read of alpha_q16 for (1<<16) - alpha_q16, the rest of the crossover
\* stage, and the subharmonic generator stage.
crossover_hold ==
    /\ probe.pc = "crossover"
    /\ LET ch == probe.ch
           crossover_out == lowpass_reads(probe.a, alpha_q16, probe.sample,
                                          prev_crossover_out[ch])
           hold == sample_and_hold(toggle_state[ch], subharmonic_hold_q16[ch],
                                   crossover_out)
       IN  /\ prev_crossover_out' = [prev_crossover_out EXCEPT ![ch] = crossover_out]
           /\ subharmonic_hold_q16' = [subharmonic_hold_q16 EXCEPT ![ch] = hold]
           /\ toggle_state' = [toggle_state EXCEPT ![ch] = xor1(@)]
           /\ probe' = [probe EXCEPT !.pc = "antialias_load",
                                     !.crossover_out = crossover_out,
                                     !.subharmonic_out = hold,
                                     !.alphas = @ \cup {alpha_q16},
                                     !.weights = <<probe.a, alpha_q16>>,
                                     !.n[ch] = @ + 1]
    /\ UNCHANGED <<prev_antialias_out_q16, coefficients, global_settings,
                   this_process, out_frequency, host_flags, buf, buffers_left,
                   last_call, last_set>>

\* The read of alpha_q16 for alpha_q16 * subharmonic_out.
antialias_load ==
    /\ probe.pc = "antialias_load"
    /\ probe' = [probe EXCEPT !.pc = "antialias", !.a = alpha_q16,
                              !.alphas = @ \cup {alpha_q16}]
    /\ UNCHANGED <<channel_state, coefficients, global_settings, this_process,
                   out_frequency, host_flags, buf, buffers_left, last_call,
                   last_set>>

\* The read of alpha_q16 for (1<<16) - alpha_q16, the rest of the anti-alias
\* stage, the mixer with its reads of pregain and gain_q16, the write of the
\* sample, and the steps of the two loops.
antialias_mix ==
    /\ probe.pc = "antialias"
    /\ LET ch == probe.ch
           i == probe.i
           antialias_out == lowpass_reads(probe.a, alpha_q16, probe.subharmonic_out,
                                          prev_antialias_out_q16[ch])
           written == [probe.b EXCEPT !.p32[ch][i] =
                          mixer(probe.sample, antialias_out, gain_q16, pregain)]
           read == [probe EXCEPT !.alphas = @ \cup {alpha_q16},
                                 !.gains = @ \cup {gain_q16},
                                 !.pregains = @ \cup {pregain},
                                 !.weights = <<probe.a, alpha_q16>>,
                                 !.sample = 0, !.a = 0, !.crossover_out = 0,
                                 !.subharmonic_out = 0]
       IN  /\ prev_antialias_out_q16' =
                  [prev_antialias_out_q16 EXCEPT ![ch] = antialias_out]
           /\ IF ch + 1 < written.num_channels /\ ch + 1 < 2
              THEN /\ probe' = [read EXCEPT !.pc = "crossover_load", !.b = written,
                                            !.ch = ch + 1]
                   /\ UNCHANGED buf
              ELSE IF i + 1 <= written.remcount
              THEN /\ probe' = [read EXCEPT !.pc = "crossover_load", !.b = written,
                                            !.i = i + 1, !.ch = 0]
                   /\ UNCHANGED buf
              ELSE /\ probe' = [read EXCEPT !.pc = "idle", !.b = NoBuffer,
                                            !.i = 0, !.ch = 0]
                   /\ buf' = written
    /\ UNCHANGED <<prev_crossover_out, subharmonic_hold_q16, toggle_state,
                   coefficients, global_settings, this_process, out_frequency,
                   host_flags, buffers_left, last_call, last_set>>

\* No setter has been called since process() was entered.
no_setter_yet == last_call[1] = "process"

NextSamples ==
    \/ \E on \in BOOLEAN :
           ~running /\ nothing_processed /\ sound_set_subharmonic_enable(on)
    \/ \E b \in SampleBuffers : process_begin(b)
    \/ crossover_load
    \/ crossover_hold
    \/ antialias_load
    \/ antialias_mix
    \/ \E hz \in Cutoffs :
           /\ running /\ no_setter_yet
           /\ sound_set_subharmonic_crossover(hz) /\ UNCHANGED last_set
    \/ \E db \in Levels :
           /\ running /\ no_setter_yet
           /\ sound_set_subharmonic_level(db) /\ UNCHANGED last_set
    \/ \E on \in BOOLEAN :
           /\ running /\ no_setter_yet
           /\ sound_set_subharmonic_pregain_enable(on) /\ UNCHANGED last_set

SpecSamples == InitSamples /\ [][NextSamples]_vars

(***************************************************************************)
(* Reference definitions used by the properties below.                     *)
(***************************************************************************)
zero == [ch \in 0..1 |-> 0]
channel_state_zero == channel_state = <<zero, zero, zero, zero>>

\* a is floor(w * 2^16 / (w + sampleRate * 2^16)) with w = cutoffHz * TWO_PI_Q16:
\* the Q16 value of 2 pi f / (2 pi f + fs), stated by its two bounds.
is_alpha(a, cutoffHz, sampleRate) ==
    LET w == BMul(Big(cutoffHz), Big(TWO_PI_Q16))
        den == BAdd(w, BShl(Big(sampleRate), 2))
        num == BShl(w, 2)
    IN  /\ BLeq(BMul(Big(a), den), num)
        /\ BLess(num, BMul(Big(a + 1), den))

\* The table entry of levelDb clamped to [-24, +12].
clamped_gain(levelDb) ==
    IF levelDb < -24 THEN gain_table_q16[1]
    ELSE IF levelDb > 12 THEN gain_table_q16[37]
    ELSE gain_table_q16[levelDb + 25]

(***************************************************************************)
(* Properties of the event handlers.                                       *)
(***************************************************************************)
\* C1: a Flush event (configure with DSP_FLUSH), in any reachable state,
\* sets the four state arrays of both channels to zero and leaves alpha,
\* gain, pregain, the cached sample rate, the process hook and the
\* configured parameters unchanged.
C1_FlushResetsStateOnly ==
    [][last_call'[1] = "DSP_FLUSH" =>
         /\ channel_state_zero'
         /\ UNCHANGED <<alpha_q16, gain_q16, pregain, samplerate>>
         /\ UNCHANGED <<this_process, global_settings>>]_vars

\* A flush has just run on an installed, enabled stage that has processed a
\* buffer: the state is zero and the coefficients are still the computed
\* ones.
C1_FlushAfterProcessing ==
    /\ last_call[1] = "DSP_FLUSH"
    /\ this_process /\ global_settings.subharmonic_enable
    /\ buffers_left < MaxBuffers
    /\ channel_state_zero
    /\ alpha_q16 > 0 /\ gain_q16 > 0

\* C2: an Initialize event (configure with DSP_PROC_INIT), in any reachable
\* state, leaves the channel state zero, the cached sample rate equal to the
\* host's output frequency, alpha the Q16 coefficient of the configured
\* crossover at that rate, gain the table entry of the configured level
\* clamped to [-24, +12], pregain the configured flag, and the hook set.
C2_InitializeEstablishes ==
    last_call[1] = "DSP_PROC_INIT" =>
        /\ channel_state_zero
        /\ samplerate = out_frequency
        /\ is_alpha(alpha_q16, global_settings.subharmonic_crossover, samplerate)
        /\ gain_q16 = clamped_gain(global_settings.subharmonic_level)
        /\ pregain = global_settings.subharmonic_pregain
        /\ this_process

\* An Initialize has just run at 48000 Hz with the stored level above the
\* table (clamped to its last entry), after a buffer had been processed.
C2_InitializedAfterProcessing ==
    /\ last_call = <<"DSP_PROC_INIT", 48000>>
    /\ buffers_left < MaxBuffers
    /\ global_settings.subharmonic_level > GAIN_TABLE_MAX_DB
    /\ samplerate = 48000 /\ alpha_q16 > 0 /\ gain_q16 = 264367
    /\ this_process /\ channel_state_zero

\* C3: a sample-rate change (configure with DSP_SET_OUT_FREQUENCY) sets the
\* cached sample rate to the host's new output frequency and recomputes alpha
\* from it, and leaves the four state arrays of both channels and the
\* process hook as they were.
C3_RateChangeKeepsState ==
    [][last_call'[1] = "DSP_SET_OUT_FREQUENCY" =>
         /\ samplerate' = last_call'[2]
         /\ samplerate' = out_frequency'
         /\ is_alpha(alpha_q16', global_settings.subharmonic_crossover, samplerate')
         /\ UNCHANGED <<channel_state, this_process>>]_vars

\* A rate change to 48000 Hz has just run on a stage whose filters hold
\* state from a processed buffer.
C3_RateChangedWithState ==
    /\ last_call = <<"DSP_SET_OUT_FREQUENCY", 48000>>
    /\ samplerate = 48000
    /\ this_process
    /\ toggle_state[0] = 1
    /\ prev_crossover_out[0] # 0 /\ prev_antialias_out_q16[0] # 0

\* C4: a Close event (configure with DSP_PROC_CLOSE) leaves the channel
\* state zero and the process hook unset; Flush, rate change, format change
\* and the crossover, level and pregain setters leave an unset hook unset;
\* a step that sets the hook is an Initialize; and process() is only
\* reached through a set hook, so no sample is transformed in between.
C4_ClosedUntilInitialize ==
    [][/\ last_call'[1] = "DSP_PROC_CLOSE" =>
              channel_state_zero' /\ ~this_process'
       /\ (/\ ~this_process
           /\ last_call'[1] \in
                 {"DSP_FLUSH", "DSP_SET_OUT_FREQUENCY", "DSP_PROC_NEW_FORMAT",
                  "sound_set_subharmonic_crossover", "sound_set_subharmonic_level",
                  "sound_set_subharmonic_pregain_enable"})
             => ~this_process'
       /\ (~this_process /\ this_process') =>
              configure_INIT(global_settings', out_frequency')
       /\ last_call'[1] = "process" => this_process]_vars

\* The hook is unset after a buffer was processed (so a Close has run), and
\* a setter called after the Close has left it unset.
C4_StillClosed ==
    /\ ~this_process
    /\ buffers_left < MaxBuffers
    /\ last_call[1] = "sound_set_subharmonic_crossover"
    /\ channel_state_zero

\* C5: after any sequence of Initialize, rate change, Flush and the three
\* setters, alpha is the coefficient of the cutoff most recently set at the
\* cached sample rate, gain the table entry of the level most recently set
\* (clamped), and pregain the flag most recently set.
C5_CoefficientsNeverStale ==
    this_process =>
        /\ is_alpha(alpha_q16, last_set.cutoffHz, samplerate)
        /\ gain_q16 = clamped_gain(last_set.levelDb)
        /\ pregain = last_set.pregainEnabled

(***************************************************************************)
(* Properties of the computations.                                         *)
(***************************************************************************)
\* C6: for any 32-bit original sample and anti-alias output, any gain of the
\* table and either pregain setting, the sample written back is
\* original (shifted right by one, arithmetically, with pregain) +
\* floor(gain * antialias / 2^16), clamped to [INT32_MIN, INT32_MAX], never
\* wrapped; and INT32_MAX, INT32_MAX, the largest gain, no pregain give
\* INT32_MAX.  The floor is stated by its bounds: with d = out - original,
\* d * 2^16 <= gain * antialias unless out is the lower clamp, and
\* gain * antialias < (d + 1) * 2^16 unless out is the upper clamp.
C6_MixerExactSaturating ==
    ~fresh =>
        LET sample == probe.in[1]
            original == IF probe.in[4] THEN (sample - (sample % 2)) \div 2 ELSE sample
            product == BMul(Big(probe.in[3]), Big(probe.in[2]))
            out == probe.out[1]
            d == BSub(Big(out), Big(original))
        IN  /\ out >= INT32_MIN /\ out <= INT32_MAX
            /\ out # INT32_MIN => BLeq(BShl(d, 2), product)
            /\ out # INT32_MAX => BLess(product, BShl(BAdd(d, Big(1)), 2))
            /\ probe.in = <<INT32_MAX, INT32_MAX, 264367, FALSE>> => out = INT32_MAX

\* The mixer has been applied to INT32_MAX, INT32_MAX, the largest gain,
\* no pregain, where the exact sum is far above INT32_MAX.
C6_MixerClippedAtMax ==
    /\ probe.in = <<INT32_MAX, INT32_MAX, 264367, FALSE>>
    /\ probe.out = <<INT32_MAX>>

\* C7: for every 32-bit cutoff >= 0 and sample rate > 0, the alpha that
\* recompute() and sound_set_subharmonic_crossover() compute satisfies
\* 0 <= alpha < 65536.
C7_AlphaInUnitRange ==
    ~fresh =>
        /\ probe.out[2] >= 0 /\ probe.out[2] < ONE_Q16
        /\ probe.out[3] >= 0 /\ probe.out[3] < ONE_Q16

\* C8: the computed alpha is strictly monotonic: at a fixed sample rate
\* r > 0 and cutoffs 0 <= f1 < f2, alpha(f1, r) < alpha(f2, r); at a fixed
\* cutoff f > 0 and sample rates 0 < r1 < r2, alpha(f, r1) > alpha(f, r2).
C8_AlphaStrictlyMonotonic ==
    ~fresh =>
        LET f1 == probe.in[1]
            r1 == probe.in[2]
            f2 == probe.in[3]
            r2 == probe.in[4]
        IN  /\ (r1 = r2 /\ f1 < f2) => probe.out[2] < probe.out[3]
            /\ (f1 = f2 /\ f1 > 0 /\ r1 < r2) => probe.out[2] > probe.out[3]

\* C9: for every integer db, the gain sound_set_subharmonic_level(db) stores
\* is the table entry of db clamped to [-24, +12]: below -24 the entry of
\* -24, above 12 the entry of 12, the index always inside the table; and
\* the same for the level recompute() reads.
C9_LevelClamped ==
    ~fresh =>
        /\ probe.out[2] >= 0 /\ probe.out[2] < Len(gain_table_q16)
        /\ probe.out[3] = clamped_gain(probe.in)
        /\ probe.in < -24 => probe.out[3] = 4145
        /\ probe.in > 12 => probe.out[3] = 264367

\* The setter has been applied to a level above the table and has stored
\* the table's last entry.
C9_LevelAboveTable ==
    /\ ~fresh
    /\ probe.out[1] = "sound_set_subharmonic_level"
    /\ probe.in = INT32_MAX
    /\ probe.out[3] = 264367

\* C10: process() called while the enable flag is false returns the buffer
\* with every sample of every channel as passed in and leaves the four
\* state arrays of both channels unchanged.
C10_DisabledProcessIsNoOp ==
    [][(last_call'[1] = "process" /\ ~global_settings.subharmonic_enable) =>
         /\ buf' = last_call'[2]
         /\ UNCHANGED channel_state]_vars

\* process() has just returned a non-empty two-channel buffer untouched
\* with the effect disabled.
C10_DisabledProcessed ==
    /\ last_call[1] = "process"
    /\ ~global_settings.subharmonic_enable
    /\ buf = last_call[2]
    /\ buf.remcount > 0 /\ buf.num_channels >= 2
    /\ alpha_q16 > 0 /\ gain_q16 > 0


(***************************************************************************)
(* Properties of process().                                                *)
(***************************************************************************)
\* C11: process() writes only channels with index < min(num_channels, 2):
\* the samples of every channel beyond the second are returned as passed
\* in, and for a one-channel buffer the second channel's samples and the
\* second channel's entries of the four state arrays are unchanged.
C11_OnlyFirstTwoChannels ==
    [][last_call'[1] = "process" =>
         LET b == last_call'[2]
         IN  /\ \A ch \in DOMAIN b.p32 :
                   (ch >= b.num_channels \/ ch >= 2) => buf'.p32[ch] = b.p32[ch]
             /\ b.num_channels = 1 =>
                   /\ prev_crossover_out'[1] = prev_crossover_out[1]
                   /\ subharmonic_hold_q16'[1] = subharmonic_hold_q16[1]
                   /\ prev_antialias_out_q16'[1] = prev_antialias_out_q16[1]
                   /\ toggle_state'[1] = toggle_state[1]]_vars

\* The enabled effect has just processed a non-empty three-channel buffer:
\* the first two channels are changed and their state has moved, the third
\* is as passed in.
C11_ThreeChannelsProcessed ==
    /\ last_call[1] = "process"
    /\ global_settings.subharmonic_enable
    /\ last_call[2].num_channels = 3 /\ last_call[2].remcount > 0
    /\ buf.p32[0] # last_call[2].p32[0]
    /\ buf.p32[1] # last_call[2].p32[1]
    /\ buf.p32[2] = last_call[2].p32[2]
    /\ toggle_state[0] = 1 /\ toggle_state[1] = 1


(***************************************************************************)
(* Properties of the enable setter.                                        *)
(***************************************************************************)
\* C12: sound_set_subharmonic_enable(on) leaves the DSP core's enabled and
\* active flags of the stage equal to on (with on, also declared in-place),
\* and no other call changes them, so after any sequence of calls they equal
\* the argument of the last one; and a call with on = true on a stage that
\* is already enabled runs an Initialize: channel state zero, coefficients
\* recomputed from the settings at the core's output frequency, hook set.
C12_EnableSetsHostFlags ==
    [][/\ last_call'[1] = "sound_set_subharmonic_enable" =>
              /\ proc_enabled' = last_call'[2]
              /\ proc_active' = last_call'[2]
              /\ last_call'[2] => proc_in_place'
              /\ (last_call'[2] /\ proc_enabled) =>
                    /\ channel_state_zero'
                    /\ this_process'
                    /\ samplerate' = out_frequency
                    /\ is_alpha(alpha_q16', global_settings.subharmonic_crossover,
                                samplerate')
                    /\ gain_q16' = clamped_gain(global_settings.subharmonic_level)
                    /\ pregain' = global_settings.subharmonic_pregain
       /\ last_call'[1] # "sound_set_subharmonic_enable" =>
              UNCHANGED <<proc_enabled, proc_active, proc_in_place>>]_vars

\* sound_set_subharmonic_enable(true) has just run on a stage that had
\* processed a buffer: the flags are set, the hook is set and the channel
\* state is zero.
C12_EnabledAgain ==
    /\ last_call = <<"sound_set_subharmonic_enable", TRUE>>
    /\ proc_enabled /\ proc_active /\ proc_in_place
    /\ buffers_left < MaxBuffers
    /\ this_process /\ channel_state_zero
    /\ alpha_q16 > 0 /\ gain_q16 > 0


\* C13: a Flush is observationally equal to a fresh Initialize: for any
\* buffer B and any parameters in effect, what process() returns for B
\* directly after a Flush that follows earlier processing is exactly what it
\* returned for B as the first buffer after the Initialize.
C13_FlushEqualsInitialize ==
    (DOMAIN probe = {"b", "fresh", "flushed"} /\ probe.flushed # << >>) =>
        probe.flushed = probe.fresh

\* A two-channel buffer of one sample (so the toggles stood at 1 before the
\* Flush) has been processed by the enabled effect after the Initialize and
\* again after the Flush, and changed by it, with the same result.
C13_ReplayedAfterFlush ==
    /\ DOMAIN probe = {"b", "fresh", "flushed"}
    /\ probe.flushed # << >> /\ probe.flushed = probe.fresh
    /\ global_settings.subharmonic_enable
    /\ probe.b.remcount = 1 /\ probe.b.num_channels = 2
    /\ probe.fresh[1].p32[0] # probe.b.p32[0]
    /\ probe.fresh[1].p32[1] # probe.b.p32[1]


(***************************************************************************)
(* Properties of the gain table.                                           *)
(***************************************************************************)
\* The integers nearest to 65536 * 10^(db/20) for db = -24 .. 12, computed
\* beforehand with 60 decimal digits; entry k + 1 is for db = k - 24.
decibel_gain_q16 ==
    << 4135, 4640, 5206, 5841, 6554, 7353, 8250, 9257, 10387, 11654, 13076,
       14672, 16462, 18471, 20724, 23253, 26090, 29274, 32846, 36854, 41350,
       46396, 52057, 58409, 65536, 73533, 82505, 92572, 103868, 116541,
       130762, 146717, 164619, 184706, 207243, 232531, 260904 >>

\* C14: every entry of the gain table, for db in -24 .. +12, is the integer
\* nearest to 65536 * 10^(db/20), and the entry of 0 dB is exactly 65536.
\* (At -20 dB the value is 65536/10 exactly, so nearest means
\* |10 * entry - 65536| <= 5.)
C14_TableIsDecibels ==
    (~fresh /\ probe.in >= GAIN_TABLE_MIN_DB /\ probe.in <= GAIN_TABLE_MAX_DB) =>
        /\ probe.out[3] = decibel_gain_q16[probe.in - GAIN_TABLE_MIN_DB + 1]
        /\ probe.in = 0 => probe.out[3] = ONE_Q16
        /\ probe.in = -20 =>
              (10 * probe.out[3] - ONE_Q16 <= 5 /\ ONE_Q16 - 10 * probe.out[3] <= 5)


(***************************************************************************)
(* Properties of the sample-and-hold stage.                                *)
(***************************************************************************)
\* C15: from a freshly reset state, for each processed channel the toggle
\* flips on every sample; the held register is overwritten with the crossover
\* output on samples 0, 2, 4, ... and left as it is on samples 1, 3, 5, ...,
\* so the stage gives at sample 2k+1 what it gave at sample 2k; and the value
\* fed to the anti-alias filter is the held register.
C15_HoldEveryOtherSample ==
    [][ /\ (probe.pc = "crossover" /\ probe'.pc = "antialias_load") =>
            LET ch == probe.ch
                even == probe.n[ch] % 2 = 0
            IN  /\ toggle_state[ch] = (IF even THEN 0 ELSE 1)
                /\ toggle_state'[ch] = 1 - toggle_state[ch]
                /\ even => subharmonic_hold_q16'[ch] = prev_crossover_out'[ch]
                /\ ~even => subharmonic_hold_q16'[ch] = subharmonic_hold_q16[ch]
                /\ probe'.subharmonic_out = subharmonic_hold_q16'[ch]
                /\ probe'.crossover_out = prev_crossover_out'[ch]
        /\ (probe.pc = "antialias" /\ probe'.pc # "antialias") =>
            LET ch == probe.ch
            IN  /\ probe.subharmonic_out = subharmonic_hold_q16[ch]
                /\ prev_antialias_out_q16'[ch] =
                       lowpass_reads(probe.a, alpha_q16, subharmonic_hold_q16[ch],
                                     prev_antialias_out_q16[ch])
      ]_vars

\* Sample 1 of channel 0 has passed the stage: the held register still has
\* the crossover output of sample 0, not that of sample 1.
C15_HeldOverOddSample ==
    /\ probe.pc = "antialias_load" /\ probe.ch = 0 /\ probe.n[0] = 2
    /\ toggle_state[0] = 0
    /\ subharmonic_hold_q16[0] # prev_crossover_out[0]
    /\ probe.subharmonic_out = subharmonic_hold_q16[0]


(***************************************************************************)
(* Properties of the denominator guard.                                    *)
(***************************************************************************)
\* cutoffHz * TWO_PI_Q16 + sampleRate * 2^16 <= 0.
denominator_not_positive(cutoffHz, sampleRate) ==
    BLeq(BAdd(BMul(Big(cutoffHz), Big(TWO_PI_Q16)), BShl(Big(sampleRate), 2)), BZero)

\* C16: when the denominator 2 pi cutoff + sampleRate (Q16) is <= 0, for any
\* 32-bit cutoff and sample rate, 1 is taken in its place and the alpha that
\* results is a valid low-pass coefficient: 0 <= alpha < 65536.
C16_DegenerateAlphaValid ==
    (~fresh /\ denominator_not_positive(probe.in[1], probe.in[2])) =>
        /\ probe.out[2] >= 0 /\ probe.out[2] < ONE_Q16


(***************************************************************************)
(* Properties of process() running beside the setters.                     *)
(***************************************************************************)
\* C17: with the setters running on another thread, an update takes effect
\* only at a buffer boundary: within one call of process() every sample of
\* every channel is computed with the same alpha, gain and pregain, and each
\* low-pass expression uses one value of alpha for both of its weights.
C17_UpdateOnlyAtBufferBoundary ==
    /\ Cardinality(probe.alphas) <= 1
    /\ Cardinality(probe.gains) <= 1
    /\ Cardinality(probe.pregains) <= 1
    /\ probe.weights[1] = probe.weights[2]


(***************************************************************************)
(* Properties of the low-pass recurrence.                                  *)
(***************************************************************************)
\* The stage was fed MaxSteps samples, or fewer and its output has settled.
fed_to_the_end == Len(probe.out) > MaxSteps \/ settled

\* The outputs never move away from c and never pass it.
toward_constant ==
    LET c == probe.in[2]
    IN  \A k \in 1..(Len(probe.out) - 1) :
            /\ c >= 0 => (probe.out[k] <= probe.out[k + 1] /\ probe.out[k + 1] <= c)
            /\ c <= 0 => (probe.out[k] >= probe.out[k + 1] /\ probe.out[k + 1] >= c)

\* C18 as stated: for alpha in (0, 65536) and a constant input c from y = 0,
\* the stored output moves monotonically toward c, never passes c, and in
\* the end (here: within MaxSteps samples) reaches a fixed point at most one
\* unit away from c.
C18_SettlesWithinOneUnit ==
    /\ toward_constant
    /\ fed_to_the_end => settled
    /\ settled =>
          LET c == Big(probe.in[2])
              y == Big(probe.out[Len(probe.out)])
          IN  BLeq(BAbs(BSub(c, y)), Big(1))

\* C18 as the code has it: the stored output moves monotonically toward c,
\* never passes c, and in the end (here: within MaxSteps samples) reaches a
\* fixed point y with 0 <= (c - y) * alpha < 65536: c itself when c <= 0,
\* and for c > 0 a value less than 65536 / alpha units below c.
C18_SettlesWithinTruncation ==
    /\ toward_constant
    /\ fed_to_the_end => settled
    /\ settled =>
          LET c == Big(probe.in[2])
              y == Big(probe.out[Len(probe.out)])
              gap == BMul(BSub(c, y), Big(probe.in[1]))
          IN  /\ BLeq(BZero, gap) /\ BLess(gap, Big(ONE_Q16))
              /\ probe.in[2] <= 0 => probe.out[Len(probe.out)] = probe.in[2]

\* The constant 100 through the stage with alpha = 16384 until it settles:
\* the stored output stays at 97.
C18_SettledThreeBelow ==
    /\ probe.in = <<16384, 100>>
    /\ settled
    /\ probe.out[Len(probe.out)] = 97


(***************************************************************************)
(* Properties of the two channels together.                                *)
(***************************************************************************)
\* C19: the toggles of the two channels are never out of phase: in every
\* state reached by lifecycle events (DSP_PROC_INIT, DSP_FLUSH,
\* DSP_PROC_CLOSE, DSP_SET_OUT_FREQUENCY, DSP_PROC_NEW_FORMAT between one and
\* two channels) and calls of process(), toggle_state[0] = toggle_state[1].
C19_TogglesInPhase == toggle_state[0] = toggle_state[1]


(***************************************************************************)
(* Properties of the low-pass stages.                                      *)
(***************************************************************************)
\* alpha * x + (2^16 - alpha) * y, not reduced to any width.
accumulator(alpha, x, y) ==
    BAdd(BMul(Big(alpha), Big(x)), BMul(BSub(Big(ONE_Q16), Big(alpha)), Big(y)))

min3(a, b, c) ==
    IF a <= b /\ a <= c THEN a ELSE IF b <= c THEN b ELSE c
max3(a, b, c) ==
    IF a >= b /\ a >= c THEN a ELSE IF b >= c THEN b ELSE c

\* C20: whenever alpha is in [0, 65536), for any 32-bit input and previous
\* output the 64-bit accumulator of a low-pass stage does not overflow, and
\* its value shifted right by 16 lies between the minimum and the maximum of
\* the input and the previous output, so the cast to 32 bits loses nothing;
\* and prev_crossover_out, subharmonic_hold_q16 and prev_antialias_out_q16
\* stay within the range spanned by the inputs since the reset and zero.
C20_StagesNeverOverflow ==
    ~fresh =>
        LET alpha == probe.in[1]
            x == probe.in[2]
            y == probe.in[3]
            lo == min3(x, y, 0)
            hi == max3(x, y, 0)
        IN  /\ probe.out[1] = "lowpass" =>
                  /\ Fits32(BSub(Big(ONE_Q16), Big(alpha)))
                  /\ Fits64(accumulator(alpha, x, y))
                  /\ Fits32(BShr(accumulator(alpha, x, y), 2))
                  /\ probe.out[2] = ToInt(BShr(accumulator(alpha, x, y), 2))
                  /\ probe.out[2] >= min3(x, y, x)
                  /\ probe.out[2] <= max3(x, y, x)
            /\ probe.out[1] = "process" =>
                  \A j \in 2..4 : probe.out[j] >= lo /\ probe.out[j] <= hi

\* A stage with products far beyond 32 bits: alpha = 65535 on the largest
\* input, with the smallest previous output.
C20_WideAccumulatorUsed ==
    /\ probe.in = <<65535, INT32_MAX, INT32_MIN>>
    /\ ~fresh
    /\ probe.out[1] = "lowpass"
    /\ ~Fits32(accumulator(65535, INT32_MAX, INT32_MIN))
    /\ probe.out[2] > INT32_MAX - ONE_Q16 - 1

====
